---- MODULE Spec2Model ----
(***************************************************************************)
(* Model of the automatic section selection tool: the session orchestrator *)
(* (main), the per-course enrollment task (auto_select_section) and the    *)
(* result handling of the enrollment service client (ucam_cloud_api).      *)
(* Strings are sequences of one-character strings so that lower-casing and *)
(* substring search are computed rather than assumed.                      *)
(***************************************************************************)
EXTENDS Integers, Sequences, FiniteSets, TLC

\* ---------------------------------------------------------------- bounds
MaxSections == 2
MaxPrefs == 2
MaxCourses == 2
MaxCycles == 2

\* ------------------------------------------------------- program constants
ShortWait == 1
LongWait == 10

\* ------------------------------------------------------------------ texts
SUCCESS == <<"s", "u", "c", "c", "e", "s", "s">>
INVALID_TOKEN == <<"i", "n", "v", "a", "l", "i", "d", " ", "t", "o", "k", "e", "n">>
DATA_PARSING_FAILED == <<"D", "a", "t", "a", " ", "p", "a", "r", "s", "i", "n", "g", " ", "f", "a", "i", "l", "e", "d", "!">>
LOGIN_FAILED == <<"L", "o", "g", "i", "n", " ", "f", "a", "i", "l", "e", "d", ":", " ">>
FETCH_PREADVISED_FAILED == <<"F", "e", "t", "c", "h", " ", "p", "r", "e", "a", "d", "v", "i", "s", "e", "d", " ", "c", "o", "u", "r", "s", "e", "s", " ", "f", "a", "i", "l", "e", "d", ":", " ">>
FETCH_ROUTINE_FAILED == <<"F", "e", "t", "c", "h", " ", "c", "o", "u", "r", "s", "e", " ", "r", "o", "u", "t", "i", "n", "e", " ", "f", "a", "i", "l", "e", "d", ":", " ">>
SECTION_ACTION_FAILED == <<"C", "o", "u", "r", "s", "e", " ", "s", "e", "c", "t", "i", "o", "n", " ", "a", "c", "t", "i", "o", "n", " ", "f", "a", "i", "l", "e", "d", ":", " ">>

\* texts the enrollment service may send back
StatusError == <<"e", "r", "r", "o", "r">>
MsgInvalidToken == <<"I", "n", "v", "a", "l", "i", "d", " ", "T", "o", "k", "e", "n">>
MsgSeatFull == <<"S", "e", "a", "t", " ", "f", "u", "l", "l">>
MsgBadCredentials == <<"B", "a", "d", " ", "c", "r", "e", "d", "e", "n", "t", "i", "a", "l", "s">>
TransportError == <<"e", "r", "r", "o", "r", " ", "s", "e", "n", "d", "i", "n", "g", " ", "r", "e", "q", "u", "e", "s", "t">>
NoText == <<>>

\* ------------------------------------------------------- string functions
UpperToLower == ("A" :> "a") @@ ("B" :> "b") @@ ("C" :> "c") @@ ("D" :> "d") @@ ("E" :> "e") @@ ("F" :> "f") @@ ("G" :> "g") @@ ("H" :> "h") @@ ("I" :> "i") @@ ("J" :> "j") @@ ("K" :> "k") @@ ("L" :> "l") @@ ("M" :> "m") @@ ("N" :> "n") @@ ("O" :> "o") @@ ("P" :> "p") @@ ("Q" :> "q") @@ ("R" :> "r") @@ ("S" :> "s") @@ ("T" :> "t") @@ ("U" :> "u") @@ ("V" :> "v") @@ ("W" :> "w") @@ ("X" :> "x") @@ ("Y" :> "y") @@ ("Z" :> "z")

\* u8::to_ascii_lowercase
CharToAsciiLowercase(c) == IF c \in DOMAIN UpperToLower THEN UpperToLower[c] ELSE c

\* str::to_ascii_lowercase
to_ascii_lowercase(s) == [i \in 1..Len(s) |-> CharToAsciiLowercase(s[i])]

\* str::to_lowercase, on the ASCII texts of this model
to_lowercase(s) == to_ascii_lowercase(s)

\* str::contains(hay, needle)
contains(hay, needle) ==
    \E i \in 0..(Len(hay) - Len(needle)) : SubSeq(hay, i + 1, i + Len(needle)) = needle

\* format!("{:?}", s) of a String without characters that need escaping
DebugFmt(s) == <<"\"">> \o s \o <<"\"">>

\* ---------------------------------------------------------------- results
Ok == [ok |-> TRUE, err |-> NoText]
Err(e) == [ok |-> FALSE, err |-> e]
None == [some |-> FALSE, id |-> 0]
Some(v) == [some |-> TRUE, id |-> v]

\* SectionActionRequest as the task builds it, and the value before it is built
SectionActionRequest(course_code, section_id) ==
    [parent_course_code |-> course_code, section_id |-> section_id, action |-> "select"]
NoAction == [parent_course_code |-> "", section_id |-> 0, action |-> ""]

OkVal(v) == [ok |-> TRUE, err |-> NoText, val |-> v]
ErrVal(e, v) == [ok |-> FALSE, err |-> e, val |-> v]

\* Response<T>: `sent` is false when send() or json() failed
Response(sent, status, message, data) ==
    [sent |-> sent, status |-> status, message |-> message, data |-> data]
NoMessage == [some |-> FALSE, text |-> NoText]
Message(t) == [some |-> TRUE, text |-> t]
NoData(v) == [some |-> FALSE, val |-> v]
Data(v) == [some |-> TRUE, val |-> v]

\* response.message.unwrap_or(response.status)
MessageOrStatus(response) ==
    IF response.message.some THEN response.message.text ELSE response.status

\* CourseSections, reduced to the fields the task reads
CourseSections(sections) == [sections |-> sections]
NoCourseInfo == CourseSections(<<>>)

login_client(response) ==
    IF ~response.sent THEN Err(TransportError)
    ELSE IF response.status # SUCCESS
         THEN Err(LOGIN_FAILED \o DebugFmt(MessageOrStatus(response)))
    ELSE IF ~response.data.some THEN Err(DATA_PARSING_FAILED)
    ELSE Ok

fetch_preadvised_courses(response) ==
    IF ~response.sent THEN ErrVal(TransportError, <<>>)
    ELSE IF response.status # SUCCESS
         THEN ErrVal(FETCH_PREADVISED_FAILED \o DebugFmt(MessageOrStatus(response)), <<>>)
    ELSE IF ~response.data.some THEN ErrVal(DATA_PARSING_FAILED, <<>>)
    ELSE OkVal(response.data.val)

fetch_course_sections(response) ==
    IF ~response.sent THEN ErrVal(TransportError, NoCourseInfo)
    ELSE IF response.status # SUCCESS
         THEN ErrVal(FETCH_ROUTINE_FAILED \o DebugFmt(MessageOrStatus(response)), NoCourseInfo)
    ELSE IF ~response.data.some THEN ErrVal(DATA_PARSING_FAILED, NoCourseInfo)
    ELSE OkVal(response.data.val)

post_course_action(response) ==
    IF ~response.sent THEN Err(TransportError)
    ELSE IF response.status # SUCCESS
         THEN Err(SECTION_ACTION_FAILED \o DebugFmt(MessageOrStatus(response)))
    ELSE Ok

\* ------------------------------------------------- section selection logic
\* main.rs: the `any` over sections and preferred sections
AlreadyEnrolled(sections, preferred_sections) ==
    \E i \in 1..Len(sections) :
        /\ sections[i].is_enrolled
        /\ \E k \in 1..Len(preferred_sections) :
              contains(to_ascii_lowercase(preferred_sections[k]),
                       to_ascii_lowercase(sections[i].section_name))

\* variant: the seat counts are not looked at
SectionFitsAnySeats(s, preferred_lower) ==
    contains(to_ascii_lowercase(s.section_name), preferred_lower)

\* the closure given to `find`
SectionFits(s, preferred_lower) ==
    /\ contains(to_ascii_lowercase(s.section_name), preferred_lower)
    /\ s.seats_taken < s.total_seats

\* Iterator::find from position i: index of the first fitting section, 0 if none
RECURSIVE FindSection(_, _, _)
FindSection(sections, preferred_lower, i) ==
    IF i > Len(sections) THEN 0
    ELSE IF SectionFits(sections[i], preferred_lower) THEN i
    ELSE FindSection(sections, preferred_lower, i + 1)

\* the `for preferred in preferred_sections.iter()` loop from entry k
RECURSIVE SelectSection(_, _, _)
SelectSection(sections, preferred_sections, k) ==
    IF k > Len(preferred_sections) THEN None
    ELSE LET preferred_lower == to_ascii_lowercase(preferred_sections[k])
             found == FindSection(sections, preferred_lower, 1)
         IN IF found # 0 THEN Some(sections[found].section_id)
            ELSE SelectSection(sections, preferred_sections, k + 1)

\* restart |= format!("{e}").to_lowercase().contains("invalid token")
IsInvalidTokenError(e) == contains(to_lowercase(e), INVALID_TOKEN)

\* variant: `restart =` in place of `restart |=`
RECURSIVE RestartFlagLastOnly(_, _, _)
RestartFlagLastOnly(res, i, restart) ==
    IF i > Len(res) THEN restart
    ELSE RestartFlagLastOnly(res, i + 1,
                             IF res[i].ok THEN restart
                             ELSE IsInvalidTokenError(res[i].err))

\* variant: the loop over the results ends at the first failure
RestartFlagFirstFailure(res, i, restart) ==
    LET failures == {k \in i..Len(res) : ~res[k].ok}
    IN IF failures = {} THEN restart
       ELSE restart \/ IsInvalidTokenError(
                res[CHOOSE k \in failures : \A m \in failures : k <= m].err)

\* the `for r in res` loop of main from position i with the flag so far
RECURSIVE RestartFlag(_, _, _)
RestartFlag(res, i, restart) ==
    IF i > Len(res) THEN restart
    ELSE RestartFlag(res, i + 1,
                     IF res[i].ok THEN restart
                     ELSE (restart \/ IsInvalidTokenError(res[i].err)))

\* ------------------------------------------------------------ input spaces
NameB == <<"B">>
NameAb == <<"a", "b">>
NameC == <<"C">>
PrefB == <<"b">>
PrefAB == <<"A", "B">>
PrefC == <<"c">>
SectionNames == {NameB, NameAb, NameC}
PrefEntries == {PrefB, PrefAB, PrefC}
SeatCounts ==
    {[taken |-> 0, total |-> 1], [taken |-> 1, total |-> 1], [taken |-> 2, total |-> 1]}

CourseSection(id, name, seats, enrolled) ==
    [section_id |-> id, section_name |-> name, total_seats |-> seats.total,
     seats_taken |-> seats.taken, is_enrolled |-> enrolled]

SeqsUpTo(S, n) == UNION {[1..k -> S] : k \in 0..n}

SectionShapes == SectionNames \X SeatCounts \X BOOLEAN

\* section lists; the service numbers the sections of a course from 101
Snapshots ==
    {[i \in 1..Len(s) |-> CourseSection(100 + i, s[i][1], s[i][2], s[i][3])] :
        s \in SeqsUpTo(SectionShapes, MaxSections)}

PrefLists == SeqsUpTo(PrefEntries, MaxPrefs)

ErrorResponses(v) ==
    {Response(FALSE, NoText, NoMessage, NoData(v)),
     Response(TRUE, StatusError, NoMessage, NoData(v)),
     Response(TRUE, StatusError, Message(MsgInvalidToken), NoData(v)),
     Response(TRUE, StatusError, Message(MsgSeatFull), NoData(v)),
     Response(TRUE, SUCCESS, NoMessage, NoData(v))}

Success(v) == Response(TRUE, SUCCESS, NoMessage, Data(v))

LoginResponses ==
    ErrorResponses(<<>>)
    \cup {Success(<<>>), Response(TRUE, StatusError, Message(MsgBadCredentials), NoData(<<>>))}

ActionResponses == ErrorResponses(<<>>) \cup {Success(<<>>)}

SectionsResponses(snapshots) ==
    ErrorResponses(NoCourseInfo)
    \cup {Success(CourseSections(s)) : s \in snapshots}

CourseCodes == {"1372-1-1", "1373-1-1", "1312-1-1"}

\* the static preference map of main and variants of it for the second course
PrefMaps ==
    {("1372-1-1" :> <<PrefB>>),
     ("1372-1-1" :> <<PrefB>>) @@ ("1373-1-1" :> <<>>),
     ("1372-1-1" :> <<PrefB>>) @@ ("1373-1-1" :> <<PrefAB, PrefB>>)
        @@ ("1312-1-1" :> <<PrefC, PrefB>>)}

\* a student's preadvised courses: no course is listed twice
CourseLists ==
    {l \in SeqsUpTo(CourseCodes, MaxCourses) :
        \A i, j \in 1..Len(l) : i # j => l[i] # l[j]}

PreadvisedResponses == ErrorResponses(<<>>) \cup {Success(l) : l \in CourseLists}

\* snapshots offered to the tasks of the whole-program specification
OneSectionSnapshots ==
    {s \in Snapshots :
        /\ Len(s) <= 1
        /\ \A i \in 1..Len(s) : s[i].section_name = NameB}

\* ------------------------------------------------------------------ state
VARIABLES
    pc,                  \* position of main
    cycle,               \* number of logins performed
    client,              \* session handle held by main (0: none)
    preferred_sections,  \* the preference map
    preadvised,          \* preadvised.courses of this cycle
    next_course,         \* position of the spawn loop in preadvised
    join_set,            \* the tasks spawned in this cycle
    res,                 \* task outputs in completion order
    restart,             \* the restart flag of the last join
    exit_error,          \* error main returned with
    accepted,            \* service side: submissions accepted, as <<course, section, cycle>>
    logging              \* whether the service-side record `accepted` is kept

vars == <<pc, cycle, client, preferred_sections, preadvised, next_course,
          join_set, res, restart, exit_error, accepted, logging>>

\* a freshly spawned auto_select_section future, about to await its first fetch
NewTask(cl, course_code, prefs) ==
    [pc |-> "fetch", client |-> cl, course_code |-> course_code,
     preferred_sections |-> prefs, polled |-> FALSE,
     course_info |-> OkVal(NoCourseInfo), sleep_secs |-> 0,
     section_id |-> None, action |-> NoAction, posts |-> 0, post_returned |-> FALSE,
     result |-> Ok, ret |-> Ok]

Init ==
    /\ pc = "login"
    /\ cycle = 0
    /\ client = 0
    /\ preferred_sections \in PrefMaps
    /\ preadvised = <<>>
    /\ next_course = 1
    /\ join_set = <<>>
    /\ res = <<>>
    /\ restart = FALSE
    /\ exit_error = NoText
    /\ accepted = {}
    /\ logging = FALSE

\* ------------------------------------------------------------------- main
\* variant: a failed login is tried again instead of ending main
LoginClientRetry ==
    /\ pc = "login"
    /\ cycle < MaxCycles
    /\ \E response \in LoginResponses :
       LET r == login_client(response)
       IN IF r.ok
          THEN /\ pc' = "fetch_preadvised"
               /\ client' = cycle + 1
               /\ exit_error' = exit_error
          ELSE /\ pc' = "login"
               /\ client' = client
               /\ exit_error' = r.err
    /\ cycle' = cycle + 1
    /\ UNCHANGED <<preferred_sections, preadvised, next_course, join_set, res, restart, accepted, logging>>

\* let client = login_client(&login_req).await?
LoginClient ==
    /\ pc = "login"
    /\ cycle < MaxCycles
    /\ \E response \in LoginResponses :
       LET r == login_client(response)
       IN IF r.ok
          THEN /\ pc' = "fetch_preadvised"
               /\ client' = cycle + 1
               /\ exit_error' = exit_error
          ELSE /\ pc' = "exit_login_err"
               /\ client' = client
               /\ exit_error' = r.err
    /\ cycle' = cycle + 1
    /\ UNCHANGED <<preferred_sections, preadvised, next_course, join_set, res, restart, accepted, logging>>

\* let preadvised = fetch_preadvised_courses(&client).await?; JoinSet::new()
FetchPreadvisedCourses ==
    /\ pc = "fetch_preadvised"
    /\ \E response \in PreadvisedResponses :
       LET r == fetch_preadvised_courses(response)
       IN IF r.ok
          THEN /\ preadvised' = r.val
               /\ pc' = IF Len(r.val) = 0 THEN "join" ELSE "spawn"
               /\ exit_error' = exit_error
          ELSE /\ preadvised' = preadvised
               /\ pc' = "exit_preadvised_err"
               /\ exit_error' = r.err
    /\ next_course' = 1
    /\ join_set' = <<>>
    /\ res' = <<>>
    /\ UNCHANGED <<cycle, client, preferred_sections, restart, accepted, logging>>

\* preferred_sections.get(&course.course_code).cloned().unwrap_or_default()
PreferredSectionsOf(course_code) ==
    IF course_code \in DOMAIN preferred_sections
    THEN preferred_sections[course_code] ELSE <<>>

AfterSpawnIteration ==
    /\ next_course' = next_course + 1
    /\ pc' = IF next_course = Len(preadvised) THEN "join" ELSE "spawn"

\* loop iteration for a course without preferred sections: log and continue
SkipCourse ==
    /\ pc = "spawn"
    /\ next_course <= Len(preadvised)
    /\ PreferredSectionsOf(preadvised[next_course]) = <<>>
    /\ AfterSpawnIteration
    /\ UNCHANGED <<cycle, client, preferred_sections, preadvised, join_set, res,
                   restart, exit_error, accepted, logging>>

\* variant: the is_empty check does not guard the spawn
SpawnTaskAlways ==
    /\ pc = "spawn"
    /\ next_course <= Len(preadvised)
    /\ join_set' = Append(join_set,
                          NewTask(client, preadvised[next_course],
                                  PreferredSectionsOf(preadvised[next_course])))
    /\ AfterSpawnIteration
    /\ UNCHANGED <<cycle, client, preferred_sections, preadvised, res, restart,
                   exit_error, accepted, logging>>

\* loop iteration that spawns auto_select_section for the course
SpawnTask ==
    /\ pc = "spawn"
    /\ next_course <= Len(preadvised)
    /\ PreferredSectionsOf(preadvised[next_course]) # <<>>
    /\ join_set' = Append(join_set,
                          NewTask(client, preadvised[next_course],
                                  PreferredSectionsOf(preadvised[next_course])))
    /\ AfterSpawnIteration
    /\ UNCHANGED <<cycle, client, preferred_sections, preadvised, res, restart,
                   exit_error, accepted, logging>>

AllTasksDone == \A t \in 1..Len(join_set) : join_set[t].pc = "done"

\* variant: the join resumes main as soon as one task has finished
JoinFirst ==
    /\ pc = "join"
    /\ (join_set = <<>> \/ \E t \in 1..Len(join_set) : join_set[t].pc = "done")
    /\ restart' = RestartFlag(res, 1, FALSE)
    /\ pc' = IF restart' THEN "login" ELSE "exit_ok"
    /\ UNCHANGED <<cycle, client, preferred_sections, preadvised, next_course,
                   join_set, res, exit_error, accepted, logging>>

\* join_all().await, the loop over the results and the restart decision
JoinAll ==
    /\ pc = "join"
    /\ AllTasksDone
    /\ restart' = RestartFlag(res, 1, FALSE)
    /\ pc' = IF restart' THEN "login" ELSE "exit_ok"
    /\ UNCHANGED <<cycle, client, preferred_sections, preadvised, next_course,
                   join_set, res, exit_error, accepted, logging>>

\* ------------------------------------------------- auto_select_section
\* variant: a task that returns an error aborts the other tasks of the join set
ReturnAbortSiblings(t, task, ret) ==
    /\ join_set' = [u \in 1..Len(join_set) |->
                      IF u = t THEN [task EXCEPT !.pc = "done", !.ret = ret]
                      ELSE IF ret.ok THEN join_set[u]
                      ELSE [join_set[u] EXCEPT !.pc = "done"]]
    /\ res' = Append(res, ret)

\* the task returns: its output is handed to the join set
Return(t, task, ret) ==
    /\ join_set' = [join_set EXCEPT ![t] = [task EXCEPT !.pc = "done", !.ret = ret]]
    /\ res' = Append(res, ret)

Suspend(t, task) ==
    /\ join_set' = [join_set EXCEPT ![t] = task]
    /\ res' = res

\* variant: a failed fetch is treated like an empty snapshot (no `?`)
FetchCourseSectionsSwallow(t, snapshots) ==
    /\ t \in 1..Len(join_set)
    /\ join_set[t].pc = "fetch"
    /\ \E response \in SectionsResponses(snapshots) :
       LET course_info == fetch_course_sections(response)
           task == [join_set[t] EXCEPT !.polled = TRUE, !.course_info = course_info,
                                       !.sleep_secs = 0, !.section_id = None,
                                       !.action = NoAction]
           sections == course_info.val.sections
           section_id == SelectSection(sections, task.preferred_sections, 1)
       IN IF sections = <<>>
          THEN Suspend(t, [task EXCEPT !.pc = "sleep", !.sleep_secs = ShortWait])
          ELSE IF AlreadyEnrolled(sections, task.preferred_sections)
          THEN Return(t, task, Ok)
          ELSE IF ~section_id.some
          THEN Suspend(t, [task EXCEPT !.pc = "sleep", !.sleep_secs = LongWait])
          ELSE Suspend(t, [task EXCEPT !.pc = "post", !.section_id = section_id,
                                       !.action = SectionActionRequest(task.course_code,
                                                                       section_id.id),
                                       !.posts = @ + 1])
    /\ UNCHANGED <<pc, cycle, client, preferred_sections, preadvised, next_course,
                   restart, exit_error, accepted, logging>>

\* variant: the is_empty check is missing, an empty snapshot goes to the selection
FetchCourseSectionsNoEmptyCheck(t, snapshots) ==
    /\ t \in 1..Len(join_set)
    /\ join_set[t].pc = "fetch"
    /\ \E response \in SectionsResponses(snapshots) :
       LET course_info == fetch_course_sections(response)
           task == [join_set[t] EXCEPT !.polled = TRUE, !.course_info = course_info,
                                       !.sleep_secs = 0, !.section_id = None,
                                       !.action = NoAction]
           sections == course_info.val.sections
           section_id == SelectSection(sections, task.preferred_sections, 1)
       IN IF ~course_info.ok
          THEN Return(t, task, Err(course_info.err))
          ELSE IF AlreadyEnrolled(sections, task.preferred_sections)
          THEN Return(t, task, Ok)
          ELSE IF ~section_id.some
          THEN Suspend(t, [task EXCEPT !.pc = "sleep", !.sleep_secs = LongWait])
          ELSE Suspend(t, [task EXCEPT !.pc = "post", !.section_id = section_id,
                                       !.action = SectionActionRequest(task.course_code,
                                                                       section_id.id),
                                       !.posts = @ + 1])
    /\ UNCHANGED <<pc, cycle, client, preferred_sections, preadvised, next_course,
                   restart, exit_error, accepted, logging>>

\* fetch_course_sections(..).await? returns; the loop body runs to its next await
FetchCourseSections(t, snapshots) ==
    /\ t \in 1..Len(join_set)
    /\ join_set[t].pc = "fetch"
    /\ \E response \in SectionsResponses(snapshots) :
       LET course_info == fetch_course_sections(response)
           task == [join_set[t] EXCEPT !.polled = TRUE, !.course_info = course_info,
                                       !.sleep_secs = 0, !.section_id = None,
                                       !.action = NoAction]
           sections == course_info.val.sections
           section_id == SelectSection(sections, task.preferred_sections, 1)
       IN IF ~course_info.ok
          THEN Return(t, task, Err(course_info.err))
          ELSE IF sections = <<>>
          THEN Suspend(t, [task EXCEPT !.pc = "sleep", !.sleep_secs = ShortWait])
          ELSE IF AlreadyEnrolled(sections, task.preferred_sections)
          THEN Return(t, task, Ok)
          ELSE IF ~section_id.some
          THEN Suspend(t, [task EXCEPT !.pc = "sleep", !.sleep_secs = LongWait])
          ELSE Suspend(t, [task EXCEPT !.pc = "post", !.section_id = section_id,
                                       !.action = SectionActionRequest(task.course_code,
                                                                       section_id.id),
                                       !.posts = @ + 1])
    /\ UNCHANGED <<pc, cycle, client, preferred_sections, preadvised, next_course,
                   restart, exit_error, accepted, logging>>

\* tokio::time::sleep(..).await elapses; `continue` issues the next fetch
WakeUp(t) ==
    /\ t \in 1..Len(join_set)
    /\ join_set[t].pc = "sleep"
    /\ join_set' = [join_set EXCEPT ![t] = [@ EXCEPT !.pc = "fetch", !.polled = FALSE,
                                                 !.course_info = OkVal(NoCourseInfo),
                                                 !.sleep_secs = 0]]
    /\ UNCHANGED <<pc, cycle, client, preferred_sections, preadvised, next_course,
                   res, restart, exit_error, accepted, logging>>

\* variant: a rejected submission sends the task back to polling
PostCourseActionRetry(t) ==
    /\ t \in 1..Len(join_set)
    /\ join_set[t].pc = "post"
    /\ \E response \in ActionResponses :
       LET result == post_course_action(response)
           submitted == <<join_set[t].action.parent_course_code,
                         join_set[t].action.section_id, cycle>>
           task == [join_set[t] EXCEPT !.post_returned = TRUE, !.result = result]
       IN /\ IF result.ok THEN Return(t, task, Ok)
             ELSE Suspend(t, [task EXCEPT !.pc = "fetch"])
          /\ accepted' = IF logging /\ result.ok THEN accepted \cup {submitted}
                          ELSE accepted
    /\ UNCHANGED <<pc, cycle, client, preferred_sections, preadvised, next_course,
                   restart, exit_error, logging>>

\* post_course_action(..).await returns; the result is printed; return Ok(())
PostCourseAction(t) ==
    /\ t \in 1..Len(join_set)
    /\ join_set[t].pc = "post"
    /\ \E response \in ActionResponses :
       LET result == post_course_action(response)
           submitted == <<join_set[t].action.parent_course_code,
                         join_set[t].action.section_id, cycle>>
           task == [join_set[t] EXCEPT !.post_returned = TRUE, !.result = result]
       IN /\ Return(t, task, Ok)
          /\ accepted' = IF logging /\ result.ok THEN accepted \cup {submitted}
                          ELSE accepted
    /\ UNCHANGED <<pc, cycle, client, preferred_sections, preadvised, next_course,
                   restart, exit_error, logging>>

\* ---------------------------------------------------------- specifications
TaskIds == 1..MaxCourses

Next ==
    \/ LoginClient
    \/ FetchPreadvisedCourses
    \/ SkipCourse
    \/ SpawnTask
    \/ JoinAll
    \/ \E t \in TaskIds : FetchCourseSections(t, OneSectionSnapshots)
    \/ \E t \in TaskIds : WakeUp(t)
    \/ \E t \in TaskIds : PostCourseAction(t)

Spec == Init /\ [][Next]_vars

\* one task with any preference list, polling over all snapshots
TaskInit ==
    /\ pc = "join"
    /\ cycle = 1
    /\ client = 1
    /\ \E prefs \in PrefLists \ {<<>>} :
          /\ preferred_sections = ("1372-1-1" :> prefs)
          /\ join_set = <<NewTask(1, "1372-1-1", prefs)>>
    /\ preadvised = <<"1372-1-1">>
    /\ next_course = 2
    /\ res = <<>>
    /\ restart = FALSE
    /\ exit_error = NoText
    /\ accepted = {}
    /\ logging = FALSE

TaskNext ==
    \/ FetchCourseSections(1, Snapshots)
    \/ WakeUp(1)
    \/ PostCourseAction(1)

TaskSpec == TaskInit /\ [][TaskNext]_vars

\* snapshots of at most one section, of any name
SingleSectionSnapshots == {s \in Snapshots : Len(s) <= 1}

\* main with three preferred courses, the service keeping its record
RestartInit ==
    /\ pc = "login"
    /\ cycle = 0
    /\ client = 0
    /\ preferred_sections \in {m \in PrefMaps : DOMAIN m = CourseCodes}
    /\ preadvised = <<>>
    /\ next_course = 1
    /\ join_set = <<>>
    /\ res = <<>>
    /\ restart = FALSE
    /\ exit_error = NoText
    /\ accepted = {}
    /\ logging = TRUE

\* every course has preferences here, so the spawn loop never skips
RestartNext ==
    \/ LoginClient
    \/ FetchPreadvisedCourses
    \/ SpawnTask
    \/ JoinAll
    \/ \E t \in TaskIds : FetchCourseSections(t, SingleSectionSnapshots)
    \/ \E t \in TaskIds : WakeUp(t)
    \/ \E t \in TaskIds : PostCourseAction(t)

RestartSpec == RestartInit /\ [][RestartNext]_vars

\* ------------------------------------------------ properties of the selector
Tasks == 1..Len(join_set)

\* the name contains the preference entry, case-insensitively
NameMatches(section, entry) ==
    contains(to_ascii_lowercase(section.section_name), to_ascii_lowercase(entry))

HasOpenSeat(section) == section.seats_taken < section.total_seats

\* the task's last poll returned a snapshot
Polled(t) == join_set[t].polled /\ join_set[t].course_info.ok

\* the task's last poll failed
PollFailed(t) == join_set[t].polled /\ ~join_set[t].course_info.ok

SectionsOf(t) == join_set[t].course_info.val.sections

\* some already-enrolled section matches some preference entry
EnrolledMatch(sections, prefs) ==
    \E i \in 1..Len(sections), k \in 1..Len(prefs) :
        sections[i].is_enrolled /\ NameMatches(sections[i], prefs[k])

\* the open sections that match preference entry k
OpenMatches(sections, prefs, k) ==
    {i \in 1..Len(sections) : NameMatches(sections[i], prefs[k]) /\ HasOpenSeat(sections[i])}

AcceptableRanks(sections, prefs) ==
    {k \in 1..Len(prefs) : OpenMatches(sections, prefs, k) # {}}

Min(S) == CHOOSE x \in S : \A y \in S : x <= y

\* first section in snapshot order under the earliest-ranked satisfiable entry
ExpectedSection(sections, prefs) ==
    LET k == Min(AcceptableRanks(sections, prefs))
        i == Min(OpenMatches(sections, prefs, k))
    IN sections[i].section_id

\* C2: for a non-empty snapshot without an already-enrolled match that holds an
\* acceptable section, the task submits the first section, in snapshot order,
\* that is open and matches the earliest-ranked satisfiable preference entry.
C2_ChoosesFirstOpenOfBestRank ==
    \A t \in Tasks :
        (/\ Polled(t)
         /\ SectionsOf(t) # <<>>
         /\ ~EnrolledMatch(SectionsOf(t), join_set[t].preferred_sections)
         /\ AcceptableRanks(SectionsOf(t), join_set[t].preferred_sections) # {})
        => /\ join_set[t].pc \in {"post", "done"}
           /\ join_set[t].posts = 1
           /\ join_set[t].section_id
                = Some(ExpectedSection(SectionsOf(t), join_set[t].preferred_sections))

\* C3: a snapshot with an already-enrolled section whose name contains a
\* preference entry ends the task with success and without a submission.
C3_EnrolledMatchEndsWithoutSubmit ==
    \A t \in Tasks :
        (Polled(t) /\ EnrolledMatch(SectionsOf(t), join_set[t].preferred_sections))
        => /\ join_set[t].pc = "done"
           /\ join_set[t].ret = Ok
           /\ join_set[t].posts = 0

\* C4: a snapshot with no open section matching any preference entry and no
\* already-enrolled match sends the task to wait and poll again; nothing is
\* submitted on it.
C4_NoAcceptableSectionWaits ==
    \A t \in Tasks :
        (/\ Polled(t)
         /\ ~EnrolledMatch(SectionsOf(t), join_set[t].preferred_sections)
         /\ AcceptableRanks(SectionsOf(t), join_set[t].preferred_sections) = {})
        => /\ join_set[t].pc = "sleep"
           /\ join_set[t].posts = 0
           /\ join_set[t].section_id = None

C1_SubmitAtMostOnce ==
    \A t \in Tasks :
        /\ join_set[t].posts <= 1
        /\ join_set[t].posts = 1 => join_set[t].pc \in {"post", "done"}
        /\ join_set[t].post_returned => (join_set[t].pc = "done" /\ join_set[t].posts = 1)
        /\ join_set[t].pc = "post" => join_set[t].posts = 1

C1_Witness ==
    \E t \in Tasks :
        /\ join_set[t].post_returned
        /\ ~join_set[t].result.ok
        /\ join_set[t].pc = "done"

\* a task result that is a failure whose text contains "invalid token" in any case
InvalidTokenFailure(r) == ~r.ok /\ contains(to_lowercase(r.err), INVALID_TOKEN)

\* main has taken the restart decision of the cycle and goes to a new login
Restarted == pc = "login" /\ cycle > 0

\* C5: once the tasks of a cycle have finished, main goes to a new login exactly
\* when some task result is a failure containing "invalid token"; otherwise,
\* also with other failures or without tasks, it terminates normally.
C5_RestartIffInvalidToken ==
    /\ Restarted => \E t \in Tasks : InvalidTokenFailure(join_set[t].ret)
    /\ pc = "exit_ok" => \A t \in Tasks : ~InvalidTokenFailure(join_set[t].ret)

C5_Witness ==
    /\ Restarted
    /\ Len(join_set) = 2
    /\ InvalidTokenFailure(join_set[1].ret)
    /\ ~join_set[2].ret.ok
    /\ ~InvalidTokenFailure(join_set[2].ret)
    /\ res = <<join_set[1].ret, join_set[2].ret>>

\* C6: main leaves the join only when every spawned task is done, and the step
\* in which a task ends in failure leaves every sibling task as it was.
C6_JoinWaitsForAllTasks ==
    [][/\ (pc = "join" /\ pc' # "join") => AllTasksDone
       /\ \A t \in Tasks :
             (/\ Len(join_set') = Len(join_set)
              /\ join_set[t].pc # "done"
              /\ join_set'[t].pc = "done"
              /\ ~join_set'[t].ret.ok)
             => \A u \in Tasks \ {t} : join_set'[u] = join_set[u]]_vars

C6_Witness ==
    /\ pc = "exit_ok"
    /\ Len(join_set) = 2
    /\ Len(res) = 2
    /\ ~res[1].ok
    /\ \E u \in Tasks : join_set[u].post_returned /\ join_set[u].ret = res[2]

\* C8: the outcome of the submit call is the task's result: a failure carrying
\* the submission error when the call failed, success when it succeeded.
C8_SubmitOutcomeIsTaskResult ==
    \A t \in Tasks :
        join_set[t].post_returned
        => /\ join_set[t].pc = "done"
           /\ join_set[t].ret = join_set[t].result
           /\ join_set[t].posts = 1

\* a call of the current cycle failed with an invalid-token error
TokenFailureInCycle ==
    \/ pc = "exit_preadvised_err" /\ IsInvalidTokenError(exit_error)
    \/ \E t \in Tasks :
          \/ PollFailed(t) /\ IsInvalidTokenError(join_set[t].course_info.err)
          \/ /\ join_set[t].post_returned
             /\ ~join_set[t].result.ok
             /\ IsInvalidTokenError(join_set[t].result.err)

\* C9: after an invalid-token failure of a call of the cycle, main neither
\* terminates normally nor exits with an error (it goes on to a new login).
C9_TokenFailureNeverEndsProgram ==
    pc \in {"exit_ok", "exit_preadvised_err"} => ~TokenFailureInCycle

\* how many tasks of the join set were spawned for the course
SpawnedFor(course_code) ==
    Cardinality({t \in Tasks : join_set[t].course_code = course_code})

HasPreferences(course_code) ==
    /\ course_code \in DOMAIN preferred_sections
    /\ preferred_sections[course_code] # <<>>

\* C10: every preadvised course the spawn loop has passed has exactly one task
\* if it has a non-empty preference list and none otherwise; every task belongs
\* to such a course and carries its preference list.
C10_OneTaskPerPreferredCourse ==
    /\ \A i \in 1..Len(preadvised) :
          SpawnedFor(preadvised[i])
            = IF i < next_course /\ HasPreferences(preadvised[i]) THEN 1 ELSE 0
    /\ \A t \in Tasks :
          /\ \E i \in 1..Len(preadvised) :
                i < next_course /\ preadvised[i] = join_set[t].course_code
          /\ HasPreferences(join_set[t].course_code)
          /\ join_set[t].preferred_sections = preferred_sections[join_set[t].course_code]

C10_Witness ==
    /\ pc = "join"
    /\ Len(preadvised) = 2
    /\ Len(join_set) = 1
    /\ ~HasPreferences(preadvised[1])
    /\ join_set[1].course_code = preadvised[2]

\* ------------------------------------------------ properties of main's exits
\* the errors login_client can return
LoginErrors == {login_client(r).err : r \in {x \in LoginResponses : ~login_client(x).ok}}

\* C11: a login step either yields the cycle's session or ends main with the
\* login error, leaving tasks, results and course list as they were; nothing
\* follows that exit: no further login, no course list, no task.
C11_LoginErrorEndsProgram ==
    [][/\ pc # "exit_login_err"
       /\ pc = "login"
          => \/ pc' = "fetch_preadvised" /\ client' = cycle' /\ exit_error' = exit_error
             \/ /\ pc' = "exit_login_err"
                /\ exit_error' \in LoginErrors
                /\ \A t \in Tasks : join_set[t].pc = "done" /\ join_set[t].client < cycle'
                /\ UNCHANGED <<client, preadvised, next_course, join_set, res>>]_vars

C11_Witness ==
    /\ pc = "exit_login_err"
    /\ cycle = 2
    /\ restart
    /\ exit_error = LOGIN_FAILED \o DebugFmt(MsgBadCredentials)

\* C12: main ends with an error only on the login of a cycle; a failure of the
\* course list call or of a task's calls never does.
C12_OnlyLoginErrorEndsProgram ==
    /\ pc # "exit_preadvised_err"
    /\ exit_error # NoText => pc = "exit_login_err"

\* ------------------------------------------------- properties across cycles
\* the service accepted a submission of this section for the task's course in
\* a cycle before the task's own
AcceptedEarlier(t, section) ==
    \E c \in 1..(join_set[t].client - 1) :
        <<join_set[t].course_code, section.section_id, c>> \in accepted

\* C13: in a later cycle, a task whose snapshot reports as already enrolled a
\* section accepted in an earlier cycle, with a name containing a preference
\* entry, ends with success and without a submission.
C13_NoResubmitAfterRestart ==
    \A t \in Tasks :
        (/\ Polled(t)
         /\ \E i \in 1..Len(SectionsOf(t)) :
               /\ SectionsOf(t)[i].is_enrolled
               /\ AcceptedEarlier(t, SectionsOf(t)[i])
               /\ \E k \in 1..Len(join_set[t].preferred_sections) :
                     NameMatches(SectionsOf(t)[i], join_set[t].preferred_sections[k]))
        => /\ join_set[t].pc = "done"
           /\ join_set[t].ret = Ok
           /\ join_set[t].posts = 0

\* -------------------------------------------------- properties of the loop
\* the step in which the pending fetch of task t returns a snapshot
PollReturns(t) ==
    /\ join_set[t].pc = "fetch"
    /\ join_set'[t].polled
    /\ join_set'[t].course_info.ok

\* C14: when a poll returns a snapshot with an acceptable section and without
\* an already-enrolled match, the same step issues the submit call for the
\* chosen section: the task is awaiting it, with no wait and no fetch between.
C14_SubmitFollowsPollAtOnce ==
    [][\A t \in Tasks :
          (/\ PollReturns(t)
           /\ ~EnrolledMatch(join_set'[t].course_info.val.sections,
                             join_set[t].preferred_sections)
           /\ AcceptableRanks(join_set'[t].course_info.val.sections,
                              join_set[t].preferred_sections) # {})
          => /\ join_set'[t].pc = "post"
             /\ join_set'[t].sleep_secs = 0
             /\ join_set'[t].posts = join_set[t].posts + 1
             /\ join_set'[t].section_id
                  = Some(ExpectedSection(join_set'[t].course_info.val.sections,
                                         join_set[t].preferred_sections))]_vars

\* ------------------------------------------------ properties of task state
\* C15: the tasks of a cycle hold the session of that cycle's login; a step of
\* a task changes that task only: not its session, course or preferences, no
\* other task and nothing of main, and it adds to the results exactly its own
\* return value when it ends.
C15_TasksShareNothing ==
    /\ [](\A t \in Tasks :
            /\ \A u \in Tasks : join_set[u].client = join_set[t].client
            /\ pc \in {"spawn", "join"} => (join_set[t].client = client /\ client = cycle))
    /\ [][(Len(join_set') = Len(join_set) /\ join_set' # join_set)
          => \E t \in Tasks :
                /\ \A u \in Tasks \ {t} : join_set'[u] = join_set[u]
                /\ join_set'[t].client = join_set[t].client
                /\ join_set'[t].course_code = join_set[t].course_code
                /\ join_set'[t].preferred_sections = join_set[t].preferred_sections
                /\ res' = IF join_set'[t].pc = "done"
                          THEN Append(res, join_set'[t].ret) ELSE res
                /\ UNCHANGED <<pc, cycle, client, preferred_sections, preadvised,
                               next_course, restart, exit_error>>]_vars

C15_Witness ==
    /\ cycle = 2
    /\ Len(join_set) = 2
    /\ join_set[1].pc = "done" /\ ~join_set[1].ret.ok
    /\ join_set[2].pc = "post"
    /\ join_set[1].client = 2 /\ join_set[2].client = 2

\* C16: on a snapshot without sections the task decides nothing: it does not
\* end and submits nothing, it sleeps the short interval (not the long one) and
\* the step after the sleep is the next fetch.
C16_EmptySnapshotShortWait ==
    /\ [](\A t \in Tasks :
            (Polled(t) /\ SectionsOf(t) = <<>>)
            => /\ join_set[t].pc = "sleep"
               /\ join_set[t].sleep_secs = ShortWait
               /\ join_set[t].sleep_secs # LongWait
               /\ join_set[t].posts = 0
               /\ join_set[t].section_id = None)
    /\ [][\A t \in Tasks :
            (join_set[t].pc = "sleep" /\ join_set'[t] # join_set[t])
            => /\ join_set'[t].pc = "fetch"
               /\ join_set'[t].posts = join_set[t].posts
               /\ res' = res]_vars

C16_Witness ==
    \E t \in Tasks :
        /\ Polled(t)
        /\ SectionsOf(t) = <<>>
        /\ join_set[t].pc = "sleep"
        /\ join_set[t].sleep_secs = ShortWait

\* C17 as stated: a task is terminated only through an already-enrolled
\* decision (an enrolled section matching a preference entry in its last
\* snapshot) or a submission attempt, and a poll that yields an empty snapshot
\* or no acceptable section leaves it waiting with the next poll to come,
\* however many polls came before.
C17_EndsOnlyByEnrolledOrSubmit ==
    \A t \in Tasks :
        /\ join_set[t].pc = "done"
           => \/ Polled(t) /\ EnrolledMatch(SectionsOf(t), join_set[t].preferred_sections)
              \/ join_set[t].posts = 1
        /\ (/\ Polled(t)
            /\ ~EnrolledMatch(SectionsOf(t), join_set[t].preferred_sections)
            /\ \/ SectionsOf(t) = <<>>
               \/ AcceptableRanks(SectionsOf(t), join_set[t].preferred_sections) = {})
           => join_set[t].pc = "sleep" /\ join_set[t].sleep_secs \in {ShortWait, LongWait}

\* C18: a submit call is issued in the step in which a poll returned, and the
\* request of every submit call names the task's own course and the id of a
\* section of the snapshot that poll returned, a section with
\* seats_taken < total_seats whose name matches one of the task's preference
\* entries; the request stays as it is until the call returns.
C18_SubmitCarriesSectionOfLastPoll ==
    /\ [](\A t \in Tasks :
            /\ join_set[t].posts >= 1
               => /\ Polled(t)
                  /\ join_set[t].action.parent_course_code = join_set[t].course_code
                  /\ join_set[t].action.action = "select"
                  /\ \E i \in 1..Len(SectionsOf(t)) :
                        /\ SectionsOf(t)[i].section_id = join_set[t].action.section_id
                        /\ HasOpenSeat(SectionsOf(t)[i])
                        /\ \E k \in 1..Len(join_set[t].preferred_sections) :
                              NameMatches(SectionsOf(t)[i], join_set[t].preferred_sections[k])
            /\ join_set[t].posts = 0 => join_set[t].action = NoAction)
    /\ [][\A t \in Tasks :
            /\ join_set'[t].posts > join_set[t].posts
               => join_set[t].pc = "fetch" /\ join_set'[t].pc = "post"
            /\ join_set[t].pc = "post"
               => /\ join_set'[t].action = join_set[t].action
                  /\ join_set'[t].course_info = join_set[t].course_info]_vars

C18_Witness ==
    \E t \in Tasks :
        /\ join_set[t].pc = "done"
        /\ join_set[t].post_returned
        /\ Len(SectionsOf(t)) = 2
        /\ join_set[t].action.section_id = SectionsOf(t)[2].section_id
        /\ ~HasOpenSeat(SectionsOf(t)[1])
        /\ \E k \in 1..Len(join_set[t].preferred_sections) :
              NameMatches(SectionsOf(t)[1], join_set[t].preferred_sections[k])

\* a task that has not returned
Live(t) == join_set[t].pc # "done"

\* C19: a login is made only while no task is live; every live task was
\* spawned in the current cycle and holds the current cycle's client, so a task
\* of an earlier cycle takes no step once the restart was decided; and no two
\* live tasks have the same course.
C19_LoginOnlyWithNoLiveTask ==
    /\ [](/\ \A t \in Tasks :
                Live(t) => /\ pc \in {"spawn", "join"}
                           /\ join_set[t].client = cycle
                           /\ join_set[t].client = client
          /\ \A t \in Tasks, u \in Tasks :
                (t # u /\ Live(t) /\ Live(u))
                => join_set[t].course_code # join_set[u].course_code)
    /\ [][/\ cycle' # cycle => pc = "login" /\ \A t \in Tasks : ~Live(t)
          /\ \A t \in Tasks :
                (Len(join_set') = Len(join_set) /\ join_set'[t] # join_set[t])
                => /\ join_set[t].client = cycle
                   /\ ~restart \/ cycle > 1]_vars

C19_Witness ==
    /\ cycle = 2
    /\ restart
    /\ pc = "join"
    /\ Len(join_set) = 2
    /\ Live(1) /\ Live(2)
    /\ join_set[1].pc = "sleep"
    /\ join_set[2].pc = "post"

\* the orders in which n tasks can finish
CompletionOrders(n) == {f \in [1..n -> 1..n] : \A i, j \in 1..n : i # j => f[i] # f[j]}

\* the list join_all returns when the tasks finish in order f
ResultsInOrder(f) == [i \in 1..Len(join_set) |-> join_set[f[i]].ret]

\* C20: the list main reads is the tasks' results in their completion order, and
\* the decision main takes when the join returns is the one the loop computes
\* for the same per-task results in every other completion order: a new login
\* when the flag is set, normal termination otherwise.
C20_RestartIndependentOfOrder ==
    [][(pc = "join" /\ pc' # "join")
       => /\ \E f \in CompletionOrders(Len(join_set)) : res = ResultsInOrder(f)
          /\ \A f \in CompletionOrders(Len(join_set)) :
                /\ RestartFlag(ResultsInOrder(f), 1, FALSE) = restart'
                /\ pc' = IF RestartFlag(ResultsInOrder(f), 1, FALSE) THEN "login"
                         ELSE "exit_ok"]_vars

C20_Witness ==
    /\ Restarted
    /\ restart
    /\ Len(join_set) = 2
    /\ res = <<join_set[2].ret, join_set[1].ret>>
    /\ ~join_set[1].ret.ok
    /\ ~join_set[2].ret.ok
    /\ InvalidTokenFailure(join_set[2].ret)
    /\ ~InvalidTokenFailure(join_set[1].ret)

\* some section of the snapshot is flagged already-enrolled
EnrolledSomewhere(sections) == \E i \in 1..Len(sections) : sections[i].is_enrolled

\* C21: on a snapshot whose already-enrolled sections all have names matching
\* none of the preference entries, the task does not end as already enrolled:
\* it submits the first open section of the earliest-ranked satisfiable entry,
\* or, when no section is acceptable, waits the long interval with nothing
\* submitted.
C21_EnrolledElsewhereSelectsAnyway ==
    \A t \in Tasks :
        (/\ Polled(t)
         /\ EnrolledSomewhere(SectionsOf(t))
         /\ ~EnrolledMatch(SectionsOf(t), join_set[t].preferred_sections))
        => IF AcceptableRanks(SectionsOf(t), join_set[t].preferred_sections) = {}
           THEN /\ join_set[t].pc = "sleep"
                /\ join_set[t].sleep_secs = LongWait
                /\ join_set[t].posts = 0
           ELSE /\ join_set[t].pc \in {"post", "done"}
                /\ join_set[t].posts = 1
                /\ join_set[t].section_id
                     = Some(ExpectedSection(SectionsOf(t), join_set[t].preferred_sections))

====
